---- MODULE Spec2Model ----
(***************************************************************************)
(* Model of model/model.py: the five wrapper classes around the encoder-   *)
(* decoder networks (WFlowNet, FlowNet, FlowNetNoRecur, E2VIDRecurrent,    *)
(* EVFlowNet), their recurrent-state accessors and copy_states.            *)
(*                                                                         *)
(* Python objects live in a heap so that aliasing is observable: a list    *)
(* is a heap cell holding slots, a slot is a tuple of tensor ids (<<>> is  *)
(* None, <<a>> a bare tensor, <<a, b>> a (tensor, tensor) pair) and a      *)
(* tensor is a heap cell holding its contents.  The caller of the wrapper  *)
(* holds two references of its own, s (a sequence it built) and g (the     *)
(* last value the states getter returned).                                 *)
(*                                                                         *)
(* The wrapped networks (model/unet.py) and recursive_clone                *)
(* (utils/myutil.py) are imported by model.py; they are modelled by what   *)
(* the wrappers rely on: a component keeps num_encoders and, when          *)
(* recurrent, a list `states` that its forward overwrites slot by slot;    *)
(* recursive_clone clones every tensor and rebuilds the containers.        *)
(***************************************************************************)
EXTENDS Integers, Sequences, FiniteSets, TLC

VARIABLES
    cls,          \* class of the wrapper, "none" before __init__ has run
    unet_kwargs,  \* the caller's configuration dict (one object, passed by reference)
    num_bins,     \* self.num_bins
    num_encoders, \* self.num_encoders
    net,          \* the wrapped component: the kwargs it was built from, its num_encoders
    live,         \* list id held by <wrapped>.states, 0 when the attribute does not exist
    heap,         \* [lists |-> list id -> slots, tens |-> tensor id -> contents]
    s,            \* caller's own sequence (list id, 0 when none)
    g,            \* caller's snapshot, the last value `states` returned (list id, 0 when none)
    output_dict,  \* what the last forward returned, <<>> after any other call
    raw,          \* what the wrapped component returned to the last forward
    err,          \* exception the last call raised, "" when it returned
    last,         \* name of the last call
    via,          \* copy routine the last `states` read went through
    nsteps        \* number of steps taken on a recurrent wrapper since construction

vars == <<cls, unet_kwargs, num_bins, num_encoders, net, live, heap, s, g,
          output_dict, raw, err, last, via, nsteps>>

----------------------------------------------------------------------------
(* Bounds *)

\* longest sequence the caller builds
MaxLen == 2
\* largest encoder count a caller configures
MaxEnc == 2
\* steps explored on a recurrent wrapper after construction
MaxSteps == 3

\* one list cell per reference that can hold a list: live, s and g
NLists == Cardinality({"live", "s", "g"})
MaxSlots == IF MaxLen > MaxEnc THEN MaxLen ELSE MaxEnc
NTens == 3 * 2 * MaxSlots + 2

TensorVals == {0, 1}
Inputs == {0, 1}

RecurrentClasses == {"WFlowNet", "FlowNet", "E2VIDRecurrent"}
StatelessClasses == {"FlowNetNoRecur", "EVFlowNet"}

----------------------------------------------------------------------------
(* Heap helpers *)

Range(f) == {f[i] : i \in DOMAIN f}

Min(S) == CHOOSE x \in S : \A y \in S : x <= y

RECURSIVE Smallest(_, _)
\* the k smallest members of S, ascending
Smallest(S, k) ==
    IF k = 0 THEN <<>>
    ELSE LET m == Min(S) IN <<m>> \o Smallest(S \ {m}, k - 1)

TensOf(slots) == UNION {Range(slots[i]) : i \in DOMAIN slots}

\* tensors reachable from the lists in roots
Reach(h, roots) == UNION {TensOf(h.lists[r]) : r \in roots \ {0}}

FreshList(roots) == Min((1..NLists) \ roots)

FreshTens(h, roots, k) == Smallest((1..NTens) \ Reach(h, roots), k)

RECURSIVE Sum(_, _)
\* counts[1] + ... + counts[i - 1]
Sum(counts, i) == IF i <= 1 THEN 0 ELSE Sum(counts, i - 1) + counts[i - 1]

\* number of tensors in the slots before slot i
Off(slots, i) == Sum([k \in DOMAIN slots |-> Len(slots[k])], i)

\* cells no reference reaches are cleared, so that garbage is not state
Collect(h, roots) ==
    LET used == Reach(h, roots)
    IN [lists |-> [l \in 1..NLists |-> IF l \in roots THEN h.lists[l] ELSE <<>>],
        tens  |-> [t \in 1..NTens |-> IF t \in used THEN h.tens[t] ELSE 0]]

\* the value of a sequence: per slot, the contents of its tensors
Val(h, l) == [i \in DOMAIN h.lists[l] |-> [j \in DOMAIN h.lists[l][i] |-> h.tens[h.lists[l][i][j]]]]

EmptyHeap == [lists |-> [l \in 1..NLists |-> <<>>], tens |-> [t \in 1..NTens |-> 0]]

----------------------------------------------------------------------------
(* Configuration dicts *)

\* d.update(e)
Update(d, e) == [k \in (DOMAIN d) \cup (DOMAIN e) |-> IF k \in DOMAIN e THEN e[k] ELSE d[k]]

EVFlowNet_kwargs ==
    [base_num_channels |-> 32, num_encoders |-> 4, num_residual_blocks |-> 2,
     num_output_channels |-> 2, skip_type |-> "concat", norm |-> "None",
     use_upsample_conv |-> TRUE, kernel_size |-> 3, channel_multiplier |-> 2]

\* the unet_kwargs a caller may pass: plain ones, and ones that also set keys
\* EVFlowNet hard-codes
Configs ==
    {[num_bins |-> 5, num_encoders |-> ne, recurrent_block_type |-> rbt] :
        ne \in 0..MaxEnc, rbt \in {"convlstm", "convgru"}}
    \cup
    {[num_bins |-> 2, num_encoders |-> MaxEnc, recurrent_block_type |-> "convlstm",
      skip_type |-> "sum", base_num_channels |-> 64]}

\* the wrapped component keeps what it read from the kwargs it was given
Component(kw) ==
    [kwargs |-> kw, num_encoders |-> kw["num_encoders"],
     cell |-> IF "recurrent_block_type" \in DOMAIN kw THEN kw["recurrent_block_type"] ELSE "convlstm"]

\* [None] * n
NoneList(n) == [i \in 1..n |-> <<>>]

\* __init__ of the four wrappers that pass unet_kwargs on untouched
PlainInit(kw) ==
    [unet_kwargs |-> kw, num_bins |-> kw["num_bins"], num_encoders |-> kw["num_encoders"],
     net |-> Component(kw)]

\* faulty variant: the hard-coded values go into a copy, the caller's dict is left alone
EVFlowNet_init_copy(kw) ==
    LET upd == Update(kw, EVFlowNet_kwargs) IN
    [unet_kwargs |-> kw, num_bins |-> upd["num_bins"], num_encoders |-> upd["num_encoders"],
     net |-> Component(upd)]

\* EVFlowNet.__init__: the caller's dict is updated in place, then read
EVFlowNet_init(kw) ==
    LET upd == Update(kw, EVFlowNet_kwargs) IN
    [unet_kwargs |-> upd, num_bins |-> upd["num_bins"], num_encoders |-> upd["num_encoders"],
     net |-> Component(upd)]

----------------------------------------------------------------------------
(* Copying state sequences *)

\* a new list with the structure of list l, every tensor cloned into a fresh cell;
\* roots are the lists that stay referenced
CloneInto(h, l, roots, routine) ==
    LET src   == h.lists[l]
        n     == Off(src, Len(src) + 1)
        new   == FreshList(roots)
        fresh == FreshTens(h, roots, n)
        slots == [i \in DOMAIN src |-> [j \in DOMAIN src[i] |-> fresh[Off(src, i) + j]]]
        tens  == [t \in 1..NTens |->
                    IF \E i \in DOMAIN src : \E j \in DOMAIN src[i] : slots[i][j] = t
                    THEN LET i == CHOOSE i \in DOMAIN src : \E j \in DOMAIN src[i] : slots[i][j] = t
                             j == CHOOSE j \in DOMAIN src[i] : slots[i][j] = t
                         IN h.tens[src[i][j]]
                    ELSE h.tens[t]]
    IN [err |-> "", ref |-> new, via |-> routine,
        heap |-> [lists |-> [h.lists EXCEPT ![new] = slots], tens |-> tens]]

\* copy.deepcopy(states)
deepcopy(h, l, roots) == CloneInto(h, l, roots, "deepcopy")

\* utils.myutil.recursive_clone(states): tensors are cloned, tuples and lists
\* rebuilt around the clones, None stays None
recursive_clone(h, l, roots) == CloneInto(h, l, roots, "recursive_clone")

\* faulty variant: list(states), a new list around the same tensors
copy_states_shallow(h, l, roots) ==
    IF Len(h.lists[l]) = 0
    THEN [err |-> "IndexError", ref |-> 0, via |-> "none", heap |-> h]
    ELSE LET new == FreshList(roots)
         IN [err |-> "", ref |-> new,
             via |-> IF h.lists[l][1] = <<>> THEN "deepcopy" ELSE "recursive_clone",
             heap |-> [h EXCEPT !.lists[new] = h.lists[l]]]

\* faulty variant: return states, no copy at all
copy_states_alias(h, l, roots) ==
    IF Len(h.lists[l]) = 0
    THEN [err |-> "IndexError", ref |-> 0, via |-> "none", heap |-> h]
    ELSE [err |-> "", ref |-> l,
          via |-> IF h.lists[l][1] = <<>> THEN "deepcopy" ELSE "recursive_clone",
          heap |-> h]

\* faulty variant: deepcopy only when every slot is None, which an empty list satisfies
copy_states_all_none(h, l, roots) ==
    IF \A i \in DOMAIN h.lists[l] : h.lists[l][i] = <<>>
    THEN deepcopy(h, l, roots)
    ELSE recursive_clone(h, l, roots)

\* copy_states(states); states[0] raises IndexError on an empty list
copy_states(h, l, roots) ==
    IF Len(h.lists[l]) = 0
    THEN [err |-> "IndexError", ref |-> 0, via |-> "none", heap |-> h]
    ELSE IF h.lists[l][1] = <<>>
         THEN deepcopy(h, l, roots)
         ELSE recursive_clone(h, l, roots)

----------------------------------------------------------------------------
(* Tensors of forward: N x C x H x W arrays of floats *)

\* batch, height and width of the event tensors a caller passes
Shapes == {<<1, 1, 1>>, <<1, 1, 2>>}

\* a recurrent component is fed one batch and image size throughout: its state
\* tensors have that size
StateShape == <<1, 1, 1>>

FlowVals == {"-1.0", "0.0", "inf", "nan"}

Idx(shape) == (1..shape[1]) \X (1..shape[2]) \X (1..shape[3]) \X (1..shape[4])

Fill(shape, v) == [shape |-> shape, data |-> [i \in Idx(shape) |-> v]]

\* 0 * v in IEEE arithmetic
Mul0(v) ==
    IF v \in {"inf", "-inf", "nan"} THEN "nan"
    ELSE IF v \in {"-1.0", "-0.0"} THEN "-0.0"
    ELSE "0.0"

\* t[..., a:b, :, :]
ChannelSlice(t, a, b) ==
    LET c   == t.shape[2]
        hi  == IF b < c THEN b ELSE c
        k   == IF hi > a THEN hi - a ELSE 0
        shp == <<t.shape[1], k, t.shape[3], t.shape[4]>>
    IN [shape |-> shp, data |-> [i \in Idx(shp) |-> t.data[<<i[1], a + i[2], i[3], i[4]>>]]]

\* 0 * t
ZeroTimes(t) == [shape |-> t.shape, data |-> [i \in DOMAIN t.data |-> Mul0(t.data[i])]]

\* what UNet.forward may return: any N x num_output_channels x H x W flow
UNetOutputs(comp, shp) ==
    LET fs == <<shp[1], comp.kwargs["num_output_channels"], shp[2], shp[3]>>
    IN {[shape |-> fs, data |-> d] : d \in [Idx(fs) -> FlowVals]}

\* what the image-and-flow components return for an event tensor
NetOutput(x, shp) ==
    [image |-> Fill(<<shp[1], 1, shp[2], shp[3]>>, IF x = 0 THEN "0.0" ELSE "1.0"),
     flow  |-> Fill(<<shp[1], 2, shp[2], shp[3]>>, "1.0")]

\* the dict EVFlowNet.forward builds around the flow
EVFlowNet_output(flow) == [flow |-> flow, image |-> ZeroTimes(ChannelSlice(flow, 0, 1))]

NoOutput == <<>>

----------------------------------------------------------------------------
(* The recurrent components' forward *)

RECURSIVE Encode(_, _, _, _, _, _, _)
\* for i, encoder in enumerate(self.encoders):
\*     x, state = encoder(x, self.states[i]); self.states[i] = state
Encode(h, l, n, cell, x, i, roots) ==
    IF i > n THEN [err |-> "", heap |-> h]
    ELSE IF i > Len(h.lists[l]) THEN [err |-> "IndexError", heap |-> h]
    ELSE LET old   == h.lists[l][i]
             k     == IF cell = "convgru" THEN 1 ELSE 2
             fresh == FreshTens(h, roots, k)
             hid   == IF Len(old) >= 1 THEN h.tens[old[1]] ELSE 0
             mem   == IF Len(old) >= 2 THEN h.tens[old[2]] ELSE 0
             tens  == [t \in 1..NTens |->
                          IF t = fresh[1] THEN (hid + x) % 2
                          ELSE IF k = 2 /\ t = fresh[2] THEN (mem + hid + x) % 2
                          ELSE h.tens[t]]
         IN Encode([lists |-> [h.lists EXCEPT ![l][i] = fresh], tens |-> tens],
                   l, n, cell, x, i + 1, roots)

component_forward(h, l, comp, x, roots) == Encode(h, l, comp.num_encoders, comp.cell, x, 1, roots)

----------------------------------------------------------------------------
(* State machine *)

NoNet == [kwargs |-> <<>>, num_encoders |-> 0, cell |-> "none"]

Init ==
    /\ cls = "none"
    /\ unet_kwargs \in Configs
    /\ num_bins = 0
    /\ num_encoders = 0
    /\ net = NoNet
    /\ live = 0
    /\ heap = EmptyHeap
    /\ s = 0
    /\ g = 0
    /\ output_dict = NoOutput
    /\ raw = NoOutput
    /\ err = ""
    /\ last = "none"
    /\ via = "none"
    /\ nsteps = 0

fields == <<cls, unet_kwargs, num_bins, num_encoders, net>>

\* only the recurrent wrappers need the step bound: the others have finitely many states
CanCall(c) == cls = c /\ (c \in RecurrentClasses => nsteps < MaxSteps)

Returns(name, out, r, e, v) ==
    /\ last' = name
    /\ output_dict' = out
    /\ raw' = r
    /\ err' = e
    /\ via' = v
    /\ nsteps' = IF cls \in RecurrentClasses THEN nsteps + 1 ELSE nsteps

\* __init__; a recurrent component starts with states = [None] * num_encoders
Construct(c, r) ==
    /\ cls = "none"
    /\ cls' = c
    /\ unet_kwargs' = r.unet_kwargs
    /\ num_bins' = r.num_bins
    /\ num_encoders' = r.num_encoders
    /\ net' = r.net
    /\ IF c \in RecurrentClasses
       THEN /\ live' = 1
            /\ heap' = [EmptyHeap EXCEPT !.lists[1] = NoneList(r.net.num_encoders)]
       ELSE UNCHANGED <<live, heap>>
    /\ UNCHANGED <<s, g, output_dict, raw, err, last, via, nsteps>>

WFlowNet_init == Construct("WFlowNet", PlainInit(unet_kwargs))
FlowNet_init == Construct("FlowNet", PlainInit(unet_kwargs))
FlowNetNoRecur_init == Construct("FlowNetNoRecur", PlainInit(unet_kwargs))
E2VIDRecurrent_init == Construct("E2VIDRecurrent", PlainInit(unet_kwargs))
EVFlowNet_construct == Construct("EVFlowNet", EVFlowNet_init(unet_kwargs))

\* faulty variant: [None] * num_bins
fresh_states_num_bins(h, comp, roots) ==
    LET new == FreshList(roots)
    IN [ref |-> new, heap |-> [h EXCEPT !.lists[new] = NoneList(comp.kwargs["num_bins"])]]

\* <component>.states = [None] * <component>.num_encoders
fresh_states(h, comp, roots) ==
    LET new == FreshList(roots)
    IN [ref |-> new, heap |-> [h EXCEPT !.lists[new] = NoneList(comp.num_encoders)]]

\* faulty variant: the slots of the current list are cleared where it stands
ResetStatesInPlace(c) ==
    /\ CanCall(c)
    /\ live' = live
    /\ heap' = Collect([heap EXCEPT !.lists[live] = [i \in DOMAIN @ |-> <<>>]], {live, s, g})
    /\ Returns("reset_states", NoOutput, NoOutput, "", "none")
    /\ UNCHANGED <<fields, s, g>>

ResetStates(c) ==
    /\ CanCall(c)
    /\ LET r == fresh_states(heap, net, {s, g})
       IN /\ live' = r.ref
          /\ heap' = Collect(r.heap, {r.ref, s, g})
    /\ Returns("reset_states", NoOutput, NoOutput, "", "none")
    /\ UNCHANGED <<fields, s, g>>

WFlowNet_reset_states == ResetStates("WFlowNet")
FlowNet_reset_states == ResetStates("FlowNet")
E2VIDRecurrent_reset_states == ResetStates("E2VIDRecurrent")

\* x = model.states: the caller keeps the copy in g
GetStates(c) ==
    /\ CanCall(c)
    /\ LET r == copy_states(heap, live, {live, s})
       IN /\ g' = IF r.err = "" THEN r.ref ELSE g
          /\ heap' = Collect(r.heap, {live, s, g'})
          /\ Returns("states", NoOutput, NoOutput, r.err, r.via)
    /\ UNCHANGED <<fields, live, s>>

WFlowNet_states == GetStates("WFlowNet")
FlowNet_states == GetStates("FlowNet")
E2VIDRecurrent_states == GetStates("E2VIDRecurrent")

\* faulty variant: the setter stores a copy of what it is given
bind_states_copy(h, given, roots) ==
    LET r == CloneInto(h, given, roots, "none") IN [ref |-> r.ref, heap |-> r.heap]

\* <component>.states = states
bind_states(h, given, roots) == [ref |-> given, heap |-> h]

\* model.states = a, for a sequence a the caller holds
SetStates(c) ==
    /\ CanCall(c)
    /\ \E a \in {s, g} \ {0} :
          LET r == bind_states(heap, a, {s, g})
          IN /\ live' = r.ref
             /\ heap' = Collect(r.heap, {r.ref, s, g})
    /\ Returns("states_setter", NoOutput, NoOutput, "", "none")
    /\ UNCHANGED <<fields, s, g>>

WFlowNet_states_setter == SetStates("WFlowNet")
FlowNet_states_setter == SetStates("FlowNet")
E2VIDRecurrent_states_setter == SetStates("E2VIDRecurrent")

\* output_dict = <component>.forward(event_tensor); return output_dict
RecurrentForward(c) ==
    /\ CanCall(c)
    /\ \E x \in Inputs, shp \in {StateShape} :
          LET r == component_forward(heap, live, net, x, {live, s, g})
          IN /\ heap' = Collect(r.heap, {live, s, g})
             /\ LET out == IF r.err = "" THEN NetOutput(x, shp) ELSE NoOutput
                IN Returns("forward", out, out, r.err, "none")
    /\ UNCHANGED <<fields, live, s, g>>

WFlowNet_forward == RecurrentForward("WFlowNet")
FlowNet_forward == RecurrentForward("FlowNet")
E2VIDRecurrent_forward == RecurrentForward("E2VIDRecurrent")

\* faulty variant: the stateless wrapper allocates a state list like the recurrent ones
PassAllocates(c) ==
    /\ CanCall(c)
    /\ live' = 1
    /\ heap' = [heap EXCEPT !.lists[1] = NoneList(net.num_encoders)]
    /\ Returns("reset_states", NoOutput, NoOutput, "", "none")
    /\ UNCHANGED <<fields, s, g>>

\* def reset_states(self): pass
Pass(c) ==
    /\ CanCall(c)
    /\ Returns("reset_states", NoOutput, NoOutput, "", "none")
    /\ UNCHANGED <<fields, live, heap, s, g>>

FlowNetNoRecur_reset_states == Pass("FlowNetNoRecur")
EVFlowNet_reset_states == Pass("EVFlowNet")

\* the class defines no `states`: reading it raises AttributeError
NoStates(c) ==
    /\ CanCall(c)
    /\ Returns("states", NoOutput, NoOutput, "AttributeError", "none")
    /\ UNCHANGED <<fields, live, heap, s, g>>

FlowNetNoRecur_states == NoStates("FlowNetNoRecur")
EVFlowNet_states == NoStates("EVFlowNet")

FlowNetNoRecur_forward ==
    /\ CanCall("FlowNetNoRecur")
    /\ \E x \in Inputs, shp \in Shapes :
          Returns("forward", NetOutput(x, shp), NetOutput(x, shp), "", "none")
    /\ UNCHANGED <<fields, live, heap, s, g>>

EVFlowNet_forward ==
    /\ CanCall("EVFlowNet")
    /\ \E shp \in Shapes : \E flow \in UNetOutputs(net, shp) :
          Returns("forward", EVFlowNet_output(flow), flow, "", "none")
    /\ UNCHANGED <<fields, live, heap, s, g>>

----------------------------------------------------------------------------
(* The caller's own steps on the sequences it holds *)

Caller == cls \in RecurrentClasses /\ nsteps < MaxSteps

CallerStep(name) ==
    /\ last' = name
    /\ nsteps' = nsteps + 1
    /\ UNCHANGED <<fields, live, output_dict, raw, err, via>>

\* s = [...]: the caller builds its sequence, a new list of None, tensor and
\* (tensor, tensor) slots, once, and edits it afterwards
CallerBuild ==
    /\ Caller
    /\ s = 0
    /\ \E kinds \in UNION {[1..n -> 0..2] : n \in 0..MaxLen} :
          LET new   == FreshList({live, g})
              fresh == FreshTens(heap, {live, g}, Sum(kinds, Len(kinds) + 1))
              slots == [i \in DOMAIN kinds |-> [j \in 1..kinds[i] |-> fresh[Sum(kinds, i) + j]]]
              h1    == [lists |-> [heap.lists EXCEPT ![new] = slots],
                        tens  |-> [t \in 1..NTens |-> IF t \in Range(fresh) THEN 0 ELSE heap.tens[t]]]
          IN /\ s' = new
             /\ g' = g
             /\ heap' = Collect(h1, {live, new, g})
    /\ CallerStep("build")

\* a[i] = None on a sequence the caller holds
CallerReplaceSlot(a, name) ==
    /\ Caller
    /\ a # 0
    /\ \E i \in DOMAIN heap.lists[a] :
          /\ heap.lists[a][i] # <<>>
          /\ heap' = Collect([heap EXCEPT !.lists[a][i] = <<>>], {live, s, g})
    /\ UNCHANGED <<s, g>>
    /\ CallerStep(name)

\* an in-place write into a tensor of a sequence the caller holds
CallerWriteTensor(a, name) ==
    /\ Caller
    /\ a # 0
    /\ \E t \in TensOf(heap.lists[a]) :
          heap' = [heap EXCEPT !.tens[t] = 1 - heap.tens[t]]
    /\ UNCHANGED <<s, g>>
    /\ CallerStep(name)

ReplaceInS == CallerReplaceSlot(s, "replace_s")
ReplaceInG == CallerReplaceSlot(g, "replace_g")
WriteInS == CallerWriteTensor(s, "write_s")
WriteInG == CallerWriteTensor(g, "write_g")

\* model.states = s; g = model.states; model.states = g, as one step of the caller
RoundTrip ==
    /\ Caller
    /\ s # 0
    /\ LET r1 == bind_states(heap, s, {s, g})
           r2 == copy_states(r1.heap, r1.ref, {r1.ref, s})
           r3 == bind_states(r2.heap, r2.ref, {s, r2.ref})
       IN IF r2.err # ""
          THEN /\ live' = r1.ref
               /\ g' = g
               /\ heap' = Collect(r1.heap, {r1.ref, s, g})
               /\ err' = r2.err
               /\ via' = r2.via
          ELSE /\ live' = r3.ref
               /\ g' = r2.ref
               /\ heap' = Collect(r3.heap, {r3.ref, s, r2.ref})
               /\ err' = ""
               /\ via' = r2.via
    /\ last' = "round_trip"
    /\ nsteps' = nsteps + 1
    /\ UNCHANGED <<fields, s, output_dict, raw>>

Next ==
    \/ FlowNetNoRecur_init
    \/ EVFlowNet_construct
    \/ WFlowNet_init
    \/ FlowNet_init
    \/ E2VIDRecurrent_init
    \/ WFlowNet_reset_states
    \/ FlowNet_reset_states
    \/ E2VIDRecurrent_reset_states
    \/ WFlowNet_states
    \/ FlowNet_states
    \/ E2VIDRecurrent_states
    \/ WFlowNet_states_setter
    \/ FlowNet_states_setter
    \/ E2VIDRecurrent_states_setter
    \/ WFlowNet_forward
    \/ FlowNet_forward
    \/ E2VIDRecurrent_forward
    \/ FlowNetNoRecur_reset_states
    \/ EVFlowNet_reset_states
    \/ FlowNetNoRecur_states
    \/ EVFlowNet_states
    \/ FlowNetNoRecur_forward
    \/ EVFlowNet_forward
    \/ CallerBuild
    \/ ReplaceInS
    \/ ReplaceInG
    \/ WriteInS
    \/ WriteInG
    \/ RoundTrip

Spec == Init /\ [][Next]_vars

----------------------------------------------------------------------------
(* Properties *)

Slots(h, l) == h.lists[l]

AllNone(slots) == \A i \in DOMAIN slots : slots[i] = <<>>

\* two sequences with no list and no tensor in common
Apart(h, a, b) == a # b /\ TensOf(h.lists[a]) \cap TensOf(h.lists[b]) = {}

Recurrent == cls \in RecurrentClasses

\* the live sequence is the same object with the same contents after the step
LiveKept == live' = live /\ Slots(heap', live) = Slots(heap, live) /\ Val(heap', live) = Val(heap, live)

\* C1: on a recurrent wrapper with a non-empty live sequence, reading `states`
\* leaves the live sequence as it was and returns a sequence with the same
\* length, slot kinds and values that shares neither the list nor any tensor
\* with it; replacing a slot of the returned value or writing into one of its
\* tensors afterwards leaves the live sequence unchanged.
C1_GetterCopies ==
    /\ [][(Recurrent /\ last' = "states" /\ Len(Slots(heap, live)) > 0) =>
            /\ err' = ""
            /\ LiveKept
            /\ Len(Slots(heap', g')) = Len(Slots(heap, live))
            /\ \A i \in DOMAIN Slots(heap, live) : Len(Slots(heap', g')[i]) = Len(Slots(heap, live)[i])
            /\ Val(heap', g') = Val(heap, live)
            /\ Apart(heap', g', live')]_vars
    /\ [][(Recurrent /\ last = "states" /\ err = "" /\ last' \in {"replace_g", "write_g"}) =>
            /\ Val(heap', g) # Val(heap, g)
            /\ LiveKept]_vars

\* a snapshot with a tensor pair has been read and then written into
C1_Witness ==
    /\ Recurrent
    /\ last = "write_g"
    /\ via = "recursive_clone"
    /\ \E i \in DOMAIN Slots(heap, g) : Len(Slots(heap, g)[i]) = 2
    /\ Val(heap, g) # Val(heap, live)

\* C2 as stated: for all five variants, reset_states() followed by reading
\* `states` returns a sequence of num_encoders entries, all absent.
C2_AllVariants ==
    [][(cls # "none" /\ last = "reset_states" /\ last' = "states") =>
          /\ err' = ""
          /\ g' # 0
          /\ Len(Slots(heap', g')) = num_encoders
          /\ AllNone(Slots(heap', g'))]_vars

\* C2 amended: for the three recurrent variants configured with at least one
\* encoder, reset_states() followed by reading `states` returns a sequence of
\* num_encoders entries, all absent.
C2_RecurrentVariants ==
    [][(Recurrent /\ num_encoders >= 1 /\ last = "reset_states" /\ last' = "states") =>
          /\ err' = ""
          /\ g' # 0
          /\ Len(Slots(heap', g')) = num_encoders
          /\ AllNone(Slots(heap', g'))]_vars

\* `states` has been read on a recurrent wrapper whose live sequence is all absent
C2_Witness ==
    /\ Recurrent
    /\ num_encoders >= 1
    /\ last = "states"
    /\ err = ""
    /\ live # g
    /\ Len(Slots(heap, live)) = num_encoders
    /\ AllNone(Slots(heap, live))
    /\ AllNone(Slots(heap, g))

\* C3: on a recurrent wrapper reset_states(), from any state, makes the live
\* state a new list, held by no one else, of the component's num_encoders
\* entries, all absent.
C3_ResetFresh ==
    [][(Recurrent /\ last' = "reset_states") =>
          /\ err' = ""
          /\ live' \notin {s', g'}
          /\ Len(Slots(heap', live')) = net.num_encoders
          /\ AllNone(Slots(heap', live'))]_vars

\* reset_states() has run while the caller still holds a populated sequence of
\* another length
C3_Witness ==
    /\ Recurrent
    /\ last = "reset_states"
    /\ s # 0
    /\ Len(Slots(heap, s)) # net.num_encoders
    /\ ~AllNone(Slots(heap, s))
    /\ Len(Slots(heap, live)) = net.num_encoders

\* C4: on a recurrent wrapper the `states` setter takes any sequence without
\* raising, and afterwards the live sequence is the very list that was given,
\* contents untouched, whatever the live sequence was before.
C4_SetterBinds ==
    [][(Recurrent /\ last' = "states_setter") =>
          /\ err' = ""
          /\ live' \in {s, g} \ {0}
          /\ Slots(heap', live') = Slots(heap, live')
          /\ Val(heap', live') = Val(heap, live')
          /\ UNCHANGED <<s, g>>]_vars

\* the setter has installed a sequence of another length than the encoder
\* count, mixing an absent slot with a populated one
C4_Witness ==
    /\ Recurrent
    /\ last = "states_setter"
    /\ live = s
    /\ Len(Slots(heap, live)) # net.num_encoders
    /\ \E i, j \in DOMAIN Slots(heap, live) : Slots(heap, live)[i] = <<>> /\ Slots(heap, live)[j] # <<>>

\* C5: on FlowNetNoRecur and EVFlowNet reset_states() never raises, creates no
\* state sequence and leaves the wrapper and its component as they were.
C5_ResetNoOp ==
    [][(cls \in StatelessClasses /\ last' = "reset_states") =>
          /\ err' = ""
          /\ live' = 0
          /\ heap' = EmptyHeap
          /\ UNCHANGED <<cls, unet_kwargs, num_bins, num_encoders, net, live, heap, s, g>>]_vars

\* reset_states() has run on the flow-only variant
C5_Witness == cls = "EVFlowNet" /\ last = "reset_states" /\ err = "" /\ num_encoders = 4

IsZero(v) == v \in {"0.0", "-0.0"}

C7_RoundTripAny ==
    [][(Recurrent /\ last' = "round_trip") =>
          /\ err' = ""
          /\ Val(heap', live') = Val(heap, s)
          /\ Apart(heap', live', s)]_vars

\* C7 amended: for any non-empty sequence s, set(s), g = get, set(g) leaves
\* the live state equal in value to s, behaving as s would under forward, and
\* sharing nothing with s, so that a later edit of s by the caller leaves the
\* live state unchanged.
C7_RoundTripNonEmpty ==
    /\ [][(Recurrent /\ last' = "round_trip" /\ Len(Slots(heap, s)) > 0) =>
            /\ err' = ""
            /\ Val(heap', live') = Val(heap, s)
            /\ Slots(heap', s) = Slots(heap, s)
            /\ Val(heap', s) = Val(heap, s)
            /\ Apart(heap', live', s)
            /\ \A x \in Inputs :
                  LET after  == component_forward(heap', live', net, x, {live', s, g'})
                      direct == component_forward(heap, s, net, x, {live, s, g})
                  IN after.err = direct.err /\ Val(after.heap, live') = Val(direct.heap, s)]_vars
    /\ [][(Recurrent /\ last = "round_trip" /\ err = "" /\ last' \in {"replace_s", "write_s"}) =>
            /\ Val(heap', s) # Val(heap, s)
            /\ LiveKept]_vars

\* after a round trip the caller has edited s, and the live state is the
\* snapshot, not s
C7_Witness ==
    /\ Recurrent
    /\ last \in {"write_s", "replace_s"}
    /\ live = g
    /\ Apart(heap, live, s)
    /\ Len(Slots(heap, live)) = Len(Slots(heap, s))
    /\ Val(heap, live) # Val(heap, s)

\* C8: a snapshot taken with the getter keeps its value through every later
\* forward, reset_states and setter call.
C8_SnapshotStable ==
    [][(Recurrent /\ g # 0 /\ last' \in {"forward", "reset_states", "states_setter"}) =>
          /\ g' = g
          /\ Val(heap', g) = Val(heap, g)]_vars

\* C9: EVFlowNet.__init__ forces the hard-coded values, num_encoders = 4 among
\* them, on the wrapper, on the component and on the caller's own dict, and
\* keeps num_bins and every other key as the caller gave them.
C9_Overrides ==
    [][(cls = "none" /\ cls' = "EVFlowNet") =>
          /\ num_encoders' = 4
          /\ net'.num_encoders = 4
          /\ num_bins' = unet_kwargs["num_bins"]
          /\ DOMAIN unet_kwargs' = (DOMAIN unet_kwargs) \cup (DOMAIN EVFlowNet_kwargs)
          /\ net'.kwargs = unet_kwargs'
          /\ \A k \in DOMAIN EVFlowNet_kwargs : unet_kwargs'[k] = EVFlowNet_kwargs[k]
          /\ \A k \in (DOMAIN unet_kwargs) \ (DOMAIN EVFlowNet_kwargs) : unet_kwargs'[k] = unet_kwargs[k]]_vars

\* an EVFlowNet built from a dict that asked for skip_type "sum"
C9_Witness ==
    /\ cls = "EVFlowNet"
    /\ num_bins = 2
    /\ num_encoders = 4
    /\ unet_kwargs["skip_type"] = "concat"
    /\ unet_kwargs["base_num_channels"] = 32
    /\ unet_kwargs["recurrent_block_type"] = "convlstm"

\* C10: the getter picks its copy routine from the first slot alone: an empty
\* live sequence makes the read fail with IndexError and change nothing; a
\* first slot that is absent sends the whole sequence, populated later slots
\* included, through deepcopy; a populated first slot sends it through
\* recursive_clone.
C10_FirstSlotDecides ==
    [][(Recurrent /\ last' = "states") =>
          /\ Len(Slots(heap, live)) = 0 =>
                (err' = "IndexError" /\ via' = "none" /\ LiveKept /\ g' = g /\ heap' = heap)
          /\ (Len(Slots(heap, live)) > 0 /\ Slots(heap, live)[1] = <<>>) =>
                /\ err' = ""
                /\ via' = "deepcopy"
                /\ Val(heap', g') = Val(heap, live)
                /\ Apart(heap', g', live')
          /\ (Len(Slots(heap, live)) > 0 /\ Slots(heap, live)[1] # <<>>) =>
                (err' = "" /\ via' = "recursive_clone")]_vars

\* a read of an empty sequence the setter installed has failed
C10_Witness ==
    /\ Recurrent
    /\ last = "states"
    /\ err = "IndexError"
    /\ live = s
    /\ Len(Slots(heap, live)) = 0

\* a sequence whose first slot is absent and whose second is populated went
\* through deepcopy
DeepcopyOfPopulated ==
    /\ Recurrent
    /\ last = "states"
    /\ via = "deepcopy"
    /\ Len(Slots(heap, g)) = 2
    /\ Slots(heap, g)[1] = <<>>
    /\ Slots(heap, g)[2] # <<>>

====
